---- MODULE Spec2Model ----
(***************************************************************************)
(* Resume-to-job matching of skillmatch (core/views.py, core/models.py,    *)
(* core/admin.py): the upload pipeline (text extraction, resume-likeness   *)
(* check, skill extraction, TF-IDF scoring, missing-skill recommendation,  *)
(* creation of DRAFT Scores) and the status changes made by the applicant  *)
(* (submit_application) and by staff (toggle_shortlist, admin actions).    *)
(*                                                                         *)
(* Texts are TLA+ strings; Python's str methods are written out character  *)
(* by character.  Score.value is kept in whole percent points.             *)
(***************************************************************************)
EXTENDS Integers, Sequences, FiniteSets, TLC

(***************************************************************************)
(* Python string primitives used by the views.                             *)
(***************************************************************************)
UpperCase == "ABCDEFGHIJKLMNOPQRSTUVWXYZ"
LowerCase == "abcdefghijklmnopqrstuvwxyz"
Digits == "0123456789_"

CharAt(s, i) == SubSeq(s, i, i)

\* the characters of the string alphabet
Chars(alphabet) == {CharAt(alphabet, i) : i \in 1..Len(alphabet)}

\* the lower-case letter of each upper-case letter
LowerOf ==
    [c \in Chars(UpperCase) |->
        CharAt(LowerCase, CHOOSE i \in 1..Len(UpperCase) : CharAt(UpperCase, i) = c)]

LowerChar(c) == IF c \in DOMAIN LowerOf THEN LowerOf[c] ELSE c

RECURSIVE Lower(_)
\* str.lower(), character by character (the string is halved to keep the
\* evaluation shallow)
Lower(s) ==
    IF Len(s) = 0 THEN ""
    ELSE IF Len(s) = 1 THEN LowerChar(s)
    ELSE Lower(SubSeq(s, 1, Len(s) \div 2)) \o Lower(SubSeq(s, Len(s) \div 2 + 1, Len(s)))

IsSpace(c) == c \in {" ", "\n", "\t", "\r"}

\* str.strip(): from the first to the last character that is not white space
Strip(s) ==
    LET solid == {i \in 1..Len(s) : ~IsSpace(CharAt(s, i))}
    IN IF solid = {} THEN ""
       ELSE SubSeq(s, CHOOSE i \in solid : \A j \in solid : i <= j,
                      CHOOSE i \in solid : \A j \in solid : i >= j)

\* the keyword test matching whole words only
ContainsWord(k, s) ==
    \E i \in 1..(Len(s) - Len(k) + 1) :
        /\ SubSeq(s, i, i + Len(k) - 1) = k
        /\ (i = 1 \/ SubSeq(s, i - 1, i - 1) \in {" ", ",", "\n"})
        /\ (i + Len(k) > Len(s) \/ SubSeq(s, i + Len(k), i + Len(k)) \in {" ", ",", "\n"})

\* k in s   (substring containment)
Contains(k, s) == \E i \in 1..(Len(s) - Len(k) + 1) : SubSeq(s, i, i + Len(k) - 1) = k

RECURSIVE SplitFrom(_, _, _)
\* s.split(sep) for a one-character sep: the pieces of s from position i on,
\* cur being the piece collected so far
SplitFrom(s, i, cur) ==
    IF i > Len(s) THEN <<cur>>
    ELSE IF CharAt(s, i) = "," THEN <<cur>> \o SplitFrom(s, i + 1, "")
    ELSE SplitFrom(s, i + 1, cur \o CharAt(s, i))

Split(s) == SplitFrom(s, 1, "")

RECURSIVE JoinSeq(_, _)
\* sep.join(parts)
JoinSeq(sep, parts) ==
    IF Len(parts) = 0 THEN ""
    ELSE IF Len(parts) = 1 THEN parts[1]
    ELSE parts[1] \o sep \o JoinSeq(sep, Tail(parts))

\* a < b in Python's string order (code point order), for the characters
\* that occur in the model's texts
CharOrder == " +,.0123456789ABCDEFGHIJKLMNOPQRSTUVWXYZ_abcdefghijklmnopqrstuvwxyz"

RankOf ==
    [c \in Chars(CharOrder) |-> CHOOSE i \in 1..Len(CharOrder) : CharAt(CharOrder, i) = c]

CharRank(c) == IF c \in DOMAIN RankOf THEN RankOf[c] ELSE 0

RECURSIVE StrLess(_, _)
StrLess(a, b) ==
    IF Len(b) = 0 THEN FALSE
    ELSE IF Len(a) = 0 THEN TRUE
    ELSE IF CharAt(a, 1) = CharAt(b, 1)
         THEN StrLess(SubSeq(a, 2, Len(a)), SubSeq(b, 2, Len(b)))
         ELSE CharRank(CharAt(a, 1)) < CharRank(CharAt(b, 1))

RECURSIVE Sorted(_)
\* sorted(S) for a set of strings
Sorted(S) ==
    IF S = {} THEN <<>>
    ELSE LET m == CHOOSE x \in S : \A y \in S \ {x} : StrLess(x, y)
         IN <<m>> \o Sorted(S \ {m})

(***************************************************************************)
(* Bounds of the model.                                                    *)
(***************************************************************************)
\* number of Job rows and Resume rows together
MaxRows == 4
\* number of Score rows
MaxScores == 2
\* pages or paragraphs of a file given to extract_text_from_resume
MaxParts == 2
\* words of a text given to extract_skills_from_text
MaxWords == 2
\* comma-separated pieces of a skills_text, and of a Job.required_skills,
\* given to the missing-skills step
MaxResumePieces == 2
MaxJobPieces == 3

(***************************************************************************)
(* Text pipeline of core/views.py.                                         *)
(***************************************************************************)
SKILL_KEYWORDS == <<
    "python", "java", "c++", "c", "html", "css", "javascript", "react",
    "angular", "node", "django", "flask", "spring", "sql", "mysql",
    "postgresql", "mongodb", "oracle", "git", "github", "docker", "aws",
    "azure", "gcp", "pandas", "numpy", "matplotlib", "tensorflow", "keras",
    "pytorch", "machine learning", "deep learning", "nlp", "data analysis",
    "data science", "excel", "power bi", "tableau", "linux" >>

RESUME_KEYWORDS == <<
    "education", "experience", "skills", "project",
    "b.tech", "btech", "bachelor", "masters", "internship",
    "curriculum vitae", "resume" >>

\* minimum length of the cleaned text of a resume
MinResumeLen == 200

\* An uploaded file: its name, its text units (the pages of a PDF, the
\* paragraphs of a DOCX, the decoded bytes of any other file), the unit at
\* which the parser raises (0: it does not) and the read position (0: start).
RECURSIVE PdfTextKeepsPages(_, _, _)
\* the except branch of the PDF path leaving text as it is
PdfTextKeepsPages(f, i, acc) ==
    IF i > Len(f.parts) THEN acc
    ELSE IF f.failAt = i THEN acc
    ELSE PdfTextKeepsPages(f, i + 1, acc \o f.parts[i] \o "\n")

RECURSIVE PdfText(_, _, _)
\* the loop over reader.pages: text of the pages from i on appended to acc;
\* "" as soon as a page raises
PdfText(f, i, acc) ==
    IF i > Len(f.parts) THEN acc
    ELSE IF f.failAt = i THEN ""
    ELSE PdfText(f, i + 1, acc \o f.parts[i] \o "\n")

EndsWith(s, suffix) ==
    Len(s) >= Len(suffix) /\ SubSeq(s, Len(s) - Len(suffix) + 1, Len(s)) = suffix

extract_text_from_resume(f) ==
    LET filename == Lower(f.name)
    IN IF EndsWith(filename, ".pdf")
       THEN PdfText(f, 1, "")
       ELSE IF EndsWith(filename, ".docx")
       THEN IF f.failAt > 0 THEN "" ELSE JoinSeq("\n", f.parts)
       ELSE JoinSeq("", f.parts)

\* extract_text_from_resume without its seek(0)
FileNotRewound(f) == [f EXCEPT !.pos = Len(f.parts)]

\* the file object after extract_text_from_resume: read() moved the position
\* to the end, seek(0) moved it back
FileAfterExtract(f) == [f EXCEPT !.pos = 0]

\* the keywords looked up in the text as it is written
extract_skills_case_sensitive(text) ==
    LET found == {SKILL_KEYWORDS[i] : i \in {j \in 1..Len(SKILL_KEYWORDS) :
                                              Contains(SKILL_KEYWORDS[j], text)}}
    IN JoinSeq(", ", Sorted(found))

extract_skills_from_text(text) ==
    LET text_lower == Lower(text)
        found == {SKILL_KEYWORDS[i] : i \in {j \in 1..Len(SKILL_KEYWORDS) :
                                              Contains(SKILL_KEYWORDS[j], text_lower)}}
    IN JoinSeq(", ", Sorted(found))

\* the keywords looked up in the text as it is written
LooksLikeResumeCaseSensitive(cleaned) ==
    /\ Len(cleaned) >= MinResumeLen
    /\ \E i \in 1..Len(RESUME_KEYWORDS) : Contains(RESUME_KEYWORDS[i], cleaned)

\* the test of upload_resume step 2, negated: the text looks like a resume
LooksLikeResume(cleaned) ==
    /\ Len(cleaned) >= MinResumeLen
    /\ \E i \in 1..Len(RESUME_KEYWORDS) : Contains(RESUME_KEYWORDS[i], Lower(cleaned))

\* skills_text of upload_resume step 4
SkillsText(extracted_skills, posted_skills) ==
    LET extra_skills == Strip(posted_skills)
        all_skills == IF extra_skills # "" THEN <<extracted_skills, extra_skills>>
                      ELSE <<extracted_skills>>
    IN JoinSeq(", ", all_skills)

(***************************************************************************)
(* TfidfVectorizer(stop_words="english") and cosine_similarity.            *)
(***************************************************************************)
\* the entries of the vectorizer's English stop-word list that the texts of
\* the model use
StopWords == {"the", "and", "of", "with", "in"}

\* the characters that \w matches
WordChars == Chars(LowerCase) \cup Chars(UpperCase) \cup Chars(Digits)

IsWordChar(c) == c \in WordChars

RECURSIVE WordRuns(_, _, _)
\* the maximal runs of word characters of s from position i on (cur: the run
\* being read)
WordRuns(s, i, cur) ==
    IF i > Len(s) THEN (IF cur = "" THEN <<>> ELSE <<cur>>)
    ELSE IF IsWordChar(CharAt(s, i)) THEN WordRuns(s, i + 1, cur \o CharAt(s, i))
    ELSE (IF cur = "" THEN <<>> ELSE <<cur>>) \o WordRuns(s, i + 1, "")

\* the analyzer: lower-case, token_pattern (?u)\b\w\w+\b, stop words removed
Tokens(doc) ==
    SelectSeq(WordRuns(Lower(doc), 1, ""), LAMBDA w : Len(w) >= 2 /\ w \notin StopWords)

\* the vocabulary of a token sequence
TokenSet(tokens) == {tokens[i] : i \in 1..Len(tokens)}

\* term frequency of t in a token sequence
TF(tokens, t) == Cardinality({i \in 1..Len(tokens) : tokens[i] = t})

RECURSIVE SumOver(_, _)
\* sum of f[x] over the x of S
SumOver(S, f) ==
    IF S = {} THEN 0
    ELSE LET x == CHOOSE y \in S : TRUE IN f[x] + SumOver(S \ {x}, f)

\* fit_transform raises ValueError("empty vocabulary ...") when no document
\* of the corpus has a token
EmptyVocabulary(a, b) == Tokens(a) = <<>> /\ Tokens(b) = <<>>

\* Smooth idf over the two-document corpus: 1 for a term of both documents,
\* ln(3/2) + 1 for a term of one; its square is taken as IdfSqNum / IdfSqDen.
IdfSqNum == 79
IdfSqDen == 40

\* squared length of the tf-idf row of the tokens ta in the corpus {ta, tb},
\* times IdfSqDen
NormSq(ta, tb) ==
    LET va == TokenSet(ta)
        vb == TokenSet(tb)
        sq == [t \in va |-> TF(ta, t) * TF(ta, t)]
    IN IdfSqDen * SumOver(va \cap vb, sq) + IdfSqNum * SumOver(va \ vb, sq)

\* sim * 100 of upload_resume, in whole percent points: the cosine of the
\* two l2-normalised tf-idf rows; a row without tokens is the zero vector
SimPercent(a, b) ==
    LET ta == Tokens(a)
        tb == Tokens(b)
        both == TokenSet(ta) \cap TokenSet(tb)
        prod == [t \in both |-> TF(ta, t) * TF(tb, t)]
        dot == SumOver(both, prod)
        nn == NormSq(ta, tb) * NormSq(tb, ta)
    IN IF dot = 0 \/ nn = 0 THEN 0
       ELSE LET q == (100 * 100 * IdfSqDen * IdfSqDen * dot * dot) \div nn
            IN CHOOSE v \in 0..100 : v * v <= q /\ (v = 100 \/ (v + 1) * (v + 1) > q)

\* the skill sets built without lower()
SkillSetCaseKept(text) ==
    LET parts == Split(text)
        stripped == [i \in 1..Len(parts) |-> Strip(parts[i])]
    IN {stripped[i] : i \in {j \in 1..Len(parts) : stripped[j] # ""}}

\* the set comprehension of upload_resume lines 201-206
SkillSet(text) ==
    LET parts == Split(text)
        stripped == [i \in 1..Len(parts) |-> Strip(parts[i])]
    IN {Lower(stripped[i]) : i \in {j \in 1..Len(parts) : stripped[j] # ""}}

MissingSkills(skills_text, required_skills) ==
    JoinSeq(", ", Sorted(SkillSet(required_skills) \ SkillSet(skills_text)))

(***************************************************************************)
(* Inputs of the requests.                                                 *)
(***************************************************************************)
Users == {"u1", "u2"}

RECURSIVE Pad(_)
\* filler text of n characters holding no keyword
Pad(n) ==
    IF n = 0 THEN "" ELSE IF n = 1 THEN "x" ELSE Pad(n \div 2) \o Pad(n - n \div 2)

\* a plain-text resume naming Python and SQL
FileGood ==
    [name |-> "cv.txt", failAt |-> 0, pos |-> 0,
     parts |-> <<"  Education: B.Tech. Skills: Python, SQL " \o Pad(200) \o "\n">>]
\* a PDF resume whose only skill is C
FileC ==
    [name |-> "CV.PDF", failAt |-> 0, pos |-> 0,
     parts |-> <<"Resume of a C developer", "", "Skills: C " \o Pad(200)>>]
\* 150 characters with a resume keyword
FileShort ==
    [name |-> "short.txt", failAt |-> 0, pos |-> 0,
     parts |-> <<"Education Python " \o Pad(133)>>]
\* 300 characters without a resume keyword
FileNoKeyword ==
    [name |-> "notes.docx", failAt |-> 0, pos |-> 0,
     parts |-> <<"Python " \o Pad(143), Pad(149)>>]
\* a resume without any skill keyword
FileNoSkill ==
    [name |-> "plain.txt", failAt |-> 0, pos |-> 0,
     parts |-> <<"Skills resume " \o Pad(200)>>]
\* a PDF whose second page cannot be parsed
FileBadPdf ==
    [name |-> "broken.pdf", failAt |-> 2, pos |-> 0,
     parts |-> <<"Education: B.Tech. Skills: Python, SQL " \o Pad(200), "more">>]

\* request.FILES["resume"] and request.POST["skills"] of the uploads the
\* model sends
Posted ==
    << [file |-> FileGood, skills |-> " Flask "],
       [file |-> FileC, skills |-> ""],
       [file |-> FileShort, skills |-> ""],
       [file |-> FileNoKeyword, skills |-> ""],
       [file |-> FileNoSkill, skills |-> ""],
       [file |-> FileBadPdf, skills |-> ""] >>

UploadInputs == 1..Len(Posted)

\* Job.required_skills of the jobs the admin adds, in the order it adds them
JobSkills == <<"Python, Django, SQL", "c", "">>

JobSkillChoices == {JobSkills[i] : i \in 1..Len(JobSkills)}

\* upload_resume steps 1 to 4 on one posted form: the cleaned text, the
\* outcome of the resume-likeness test, the extracted skills, skills_text
Analyse(post) ==
    LET resume_text == extract_text_from_resume(post.file)
        cleaned == Strip(resume_text)
        extracted_skills == extract_skills_from_text(cleaned)
    IN [cleaned |-> cleaned,
        looks_like_resume |-> LooksLikeResume(cleaned),
        extracted_skills |-> extracted_skills,
        skills_text |-> SkillsText(extracted_skills, post.skills)]

\* Analyse per upload input and the scorer per pair of texts, tabulated once
\* (@@ makes the table an explicit function)
Analysed == [in \in UploadInputs |-> Analyse(Posted[in])] @@ <<>>

\* the skills_text values the uploads can store
SkillsTexts == {Analysed[in].skills_text : in \in UploadInputs}

\* the scorer's results, per skills_text and required_skills
Scored ==
    [pair \in SkillsTexts \X JobSkillChoices |->
        [empty |-> EmptyVocabulary(pair[1], pair[2]),
         value |-> SimPercent(pair[1], pair[2]),
         missing |-> MissingSkills(pair[1], pair[2])]] @@ <<>>

(***************************************************************************)
(* State: the tables of core/models.py (a row's id is its index), the      *)
(* response of the last request and the requests in flight.                *)
(***************************************************************************)
VARIABLES
    jobs,       \* Job rows: [required_skills]
    resumes,    \* Resume rows: [user, file, skills]
    scores,     \* Score rows: [resume, job, value, recommended_skills,
                \*              is_shortlisted, status]
    response,   \* what the last POST to upload_resume answered:
                \* [level, text, redirect]
    requests,   \* upload_resume requests in flight, per worker
    ran,        \* history: per user, the number of jobs when the matching
                \* step last ran for the user (-1: never)
    seen,       \* history: the responses given to uploads that found no job
                \* and to uploads that found every job matched
    overlap,    \* history: users that had two uploads in flight at once
    args,       \* a function of the text pipeline called on its own: the
                \* function and its arguments
    returned    \* how far that call went, and what it returned

vars == <<jobs, resumes, scores, response, requests, ran, seen, overlap, args, returned>>

\* the variables of the requests
tables == <<jobs, resumes, scores, response, requests, ran, seen, overlap>>

NoArgs == [fn |-> "none"]

NoReturn == [step |-> "none"]

\* the workers that serve upload_resume concurrently
WorkerIds == {"w1", "w2"}

Idle == [pc |-> "idle"]

NoResponse == [level |-> "", text |-> "", redirect |-> ""]

Init ==
    /\ jobs = <<>>
    /\ resumes = <<>>
    /\ scores = <<>>
    /\ response = NoResponse
    /\ requests = [w \in WorkerIds |-> Idle]
    /\ ran = [u \in Users |-> -1]
    /\ seen = {}
    /\ overlap = {}
    /\ args = NoArgs
    /\ returned = NoReturn

Ids(table) == 1..Len(table)

\* resume__user of a Score row
Owner(rs, score) == rs[score.resume].user

\* the existence check filtering on the new resume instead of its owner
AlreadyExistsForResume(sc, rs, job, user) ==
    \E k \in 1..Len(sc) : sc[k].job = job /\ sc[k].resume = Len(rs)

\* the existence check also asking for the skill text of the new resume, so
\* that a changed skill text matches the job again
AlreadyExistsSameSkills(sc, rs, job, user) ==
    \E k \in 1..Len(sc) :
        /\ sc[k].job = job
        /\ rs[sc[k].resume].user = user
        /\ rs[sc[k].resume].skills = rs[Len(rs)].skills

\* Score.objects.filter(job=job, resume__user=user).exists()
AlreadyExists(sc, rs, job, user) ==
    \E k \in Ids(sc) : sc[k].job = job /\ Owner(rs, sc[k]) = user

\* the created row left to a model default of SUBMITTED
NewScoreSubmitted(resume, job, skills_text, job_text) ==
    [resume |-> resume, job |-> job,
     value |-> Scored[skills_text, job_text].value,
     recommended_skills |-> Scored[skills_text, job_text].missing,
     status |-> "SUBMITTED", is_shortlisted |-> FALSE]

\* the row of Score.objects.create(...) in upload_resume
NewScore(resume, job, skills_text, job_text) ==
    [resume |-> resume, job |-> job,
     value |-> Scored[skills_text, job_text].value,
     recommended_skills |-> Scored[skills_text, job_text].missing,
     status |-> "DRAFT", is_shortlisted |-> FALSE]

\* the redirect and message that end a POST to upload_resume
UploadResponse(created_any) ==
    IF created_any
    THEN [level |-> "success",
          text |-> "Resume analysed. Draft applications created for new jobs.",
          redirect |-> "my_applications"]
    ELSE [level |-> "warning",
          text |-> "You have already created applications for all current jobs.",
          redirect |-> "my_applications"]

InvalidResumeResponse ==
    [level |-> "error",
     text |-> "The uploaded file does not look like a valid resume.",
     redirect |-> "upload_resume"]

NoSkillsResponse ==
    [level |-> "error",
     text |-> "No technical skills were detected in your resume.",
     redirect |-> "upload_resume"]

\* the ValueError of fit_transform leaves the view: HTTP 500
ServerErrorResponse ==
    [level |-> "exception", text |-> "ValueError",
     redirect |-> ""]

\* the skill test lost: every extraction result is accepted
SkillsNotChecked(extracted_skills) == TRUE

\* the test `if not extracted_skills`, negated
SkillsDetected(extracted_skills) == extracted_skills # ""

RECURSIVE RunMatching(_, _, _, _, _, _, _)
\* the loop `for job in jobs` from the i-th job of order on: sc the Score
\* table so far, rs the Resume table, rid the new Resume
RunMatching(order, i, sc, rs, rid, created_any, js) ==
    IF i > Len(order) THEN [scores |-> sc, created_any |-> created_any, raised |-> FALSE]
    ELSE LET job == order[i]
             job_text == js[job].required_skills
         IN IF AlreadyExists(sc, rs, job, rs[rid].user)
            THEN RunMatching(order, i + 1, sc, rs, rid, created_any, js)
            ELSE IF Scored[rs[rid].skills, job_text].empty
            THEN [scores |-> sc, created_any |-> created_any, raised |-> TRUE]
            ELSE RunMatching(order, i + 1,
                             Append(sc, NewScore(rid, job, rs[rid].skills, job_text)),
                             rs, rid, TRUE, js)

\* the orders in which Job.objects.all() can return the rows (the query has
\* no ORDER BY)
JobOrders(js) ==
    {o \in [Ids(js) -> Ids(js)] : \A a, b \in Ids(js) : a # b => o[a] # o[b]}

\* history of the responses to uploads that created nothing
Seen(njobs, created_any) ==
    IF created_any THEN seen
    ELSE seen \cup {<<IF njobs = 0 THEN "no_jobs" ELSE "all_matched",
                      UploadResponse(created_any)>>}

\* the file kept by Resume.objects.create(file=file): the content from the
\* read position on
StoredFile(file) ==
    [name |-> file.name,
     parts |-> IF file.pos = 0 THEN file.parts ELSE <<>>]

\* the row of Resume.objects.create(...) in upload_resume
NewResume(user, in) ==
    [user |-> user,
     file |-> StoredFile(FileAfterExtract(Posted[in].file)),
     skills |-> Analysed[in].skills_text]

(***************************************************************************)
(* Requests served one at a time.                                          *)
(***************************************************************************)
\* POST upload_resume by user with the file and typed skills Posted[in]
Upload(user, in) ==
    /\ UNCHANGED <<args, returned>>
    /\ UNCHANGED <<jobs, requests, overlap>>
    /\ IF ~Analysed[in].looks_like_resume
       THEN /\ response' = InvalidResumeResponse
            /\ UNCHANGED <<resumes, scores, ran, seen>>
       ELSE IF ~SkillsDetected(Analysed[in].extracted_skills)
       THEN /\ response' = NoSkillsResponse
            /\ UNCHANGED <<resumes, scores, ran, seen>>
       ELSE /\ Len(jobs) + Len(resumes) < MaxRows
            /\ \E order \in JobOrders(jobs) :
                 LET rs == Append(resumes, NewResume(user, in))
                     result == RunMatching(order, 1, scores, rs, Len(rs), FALSE, jobs)
                 IN /\ Len(result.scores) <= MaxScores
                    /\ resumes' = rs
                    /\ scores' = result.scores
                    /\ ran' = [ran EXCEPT ![user] = Len(jobs)]
                    /\ IF result.raised
                       THEN response' = ServerErrorResponse /\ seen' = seen
                       ELSE /\ response' = UploadResponse(result.created_any)
                            /\ seen' = Seen(Len(jobs), result.created_any)

\* staff adds a Job in the admin site
AddJob(required_skills) ==
    /\ UNCHANGED <<args, returned>>
    /\ Len(jobs) + Len(resumes) < MaxRows
    /\ jobs' = Append(jobs, [required_skills |-> required_skills])
    /\ UNCHANGED <<resumes, scores, response, requests, ran, seen, overlap>>

\* submit_application without its status test
CanSubmitAlways(score) == TRUE

\* the test `score.status != "DRAFT"`, negated
CanSubmit(score) == score.status = "DRAFT"

\* the row saved by submit_application
SubmittedScore(score) == [score EXCEPT !.status = "SUBMITTED"]

\* submit_application(request, score_id) by user: 404 unless the row exists
\* and belongs to a resume of the user
SubmitApplication(user, score_id) ==
    /\ UNCHANGED <<args, returned>>
    /\ UNCHANGED <<jobs, resumes, response, requests, ran, seen, overlap>>
    /\ IF ~(score_id \in Ids(scores) /\ Owner(resumes, scores[score_id]) = user)
       THEN scores' = scores
       ELSE IF ~CanSubmit(scores[score_id])
       THEN scores' = scores
       ELSE scores' = [scores EXCEPT ![score_id] = SubmittedScore(@)]

\* toggle_shortlist also clearing the recommendation
ToggledScoreCleared(score) ==
    [score EXCEPT !.is_shortlisted = ~score.is_shortlisted,
                  !.status = IF ~score.is_shortlisted THEN "SHORTLISTED" ELSE "REJECTED",
                  !.recommended_skills = ""]

\* the row saved by toggle_shortlist
ToggledScore(score) ==
    [score EXCEPT !.is_shortlisted = ~score.is_shortlisted,
                  !.status = IF ~score.is_shortlisted THEN "SHORTLISTED" ELSE "REJECTED"]

\* toggle_shortlist(request, score_id) by a staff member: 404 unless the row
\* exists
ToggleShortlist(score_id) ==
    /\ UNCHANGED <<args, returned>>
    /\ UNCHANGED <<jobs, resumes, response, requests, ran, seen, overlap>>
    /\ IF score_id \notin Ids(scores)
       THEN scores' = scores
       ELSE scores' = [scores EXCEPT ![score_id] = ToggledScore(@)]

\* queryset.update(is_shortlisted=True, status="SHORTLISTED") on one row
ShortlistedScore(score) == [score EXCEPT !.is_shortlisted = TRUE, !.status = "SHORTLISTED"]

\* the update of make_rejected writing the status alone
RejectedScoreKeepsFlag(score) == [score EXCEPT !.status = "REJECTED"]

\* queryset.update(is_shortlisted=False, status="REJECTED") on one row
RejectedScore(score) == [score EXCEPT !.is_shortlisted = FALSE, !.status = "REJECTED"]

\* admin action make_shortlisted on the selected rows
MakeShortlisted(queryset) ==
    /\ UNCHANGED <<args, returned>>
    /\ queryset # {}
    /\ scores' = [k \in Ids(scores) |->
                    IF k \in queryset THEN ShortlistedScore(scores[k]) ELSE scores[k]]
    /\ UNCHANGED <<jobs, resumes, response, requests, ran, seen, overlap>>

\* admin action make_rejected on the selected rows
MakeRejected(queryset) ==
    /\ UNCHANGED <<args, returned>>
    /\ queryset # {}
    /\ scores' = [k \in Ids(scores) |->
                    IF k \in queryset THEN RejectedScore(scores[k]) ELSE scores[k]]
    /\ UNCHANGED <<jobs, resumes, response, requests, ran, seen, overlap>>

\* the ids a request can name: the rows and one id that has no row
ScoreIds == 1..(Len(scores) + 1)

\* the required_skills of the next job the admin adds
NextJobSkills == {JobSkills[(Len(jobs) % Len(JobSkills)) + 1]}

Next ==
    \/ \E u \in Users, in \in UploadInputs : Upload(u, in)
    \/ \E rs \in NextJobSkills : AddJob(rs)
    \/ \E u \in Users, id \in ScoreIds : SubmitApplication(u, id)
    \/ \E id \in ScoreIds : ToggleShortlist(id)
    \/ \E q \in SUBSET Ids(scores) : MakeShortlisted(q)
    \/ \E q \in SUBSET Ids(scores) : MakeRejected(q)

Spec == Init /\ [][Next]_vars

(***************************************************************************)
(* upload_resume served by several workers at once: the existence check    *)
(* and the creation of a Score are separate database statements, and       *)
(* other requests run between them.                                        *)
(***************************************************************************)
\* POST upload_resume up to the start of the loop: validation, the Resume
\* row, the rows of Job.objects.all()
StartUpload(w, user, in) ==
    /\ UNCHANGED <<args, returned>>
    /\ requests[w].pc = "idle"
    /\ UNCHANGED <<jobs, scores, seen>>
    /\ IF ~Analysed[in].looks_like_resume
       THEN /\ response' = InvalidResumeResponse
            /\ UNCHANGED <<resumes, requests, ran, overlap>>
       ELSE IF ~SkillsDetected(Analysed[in].extracted_skills)
       THEN /\ response' = NoSkillsResponse
            /\ UNCHANGED <<resumes, requests, ran, overlap>>
       ELSE /\ Len(jobs) + Len(resumes) < MaxRows
            /\ resumes' = Append(resumes, NewResume(user, in))
            /\ \E order \in JobOrders(jobs) :
                 requests' = [requests EXCEPT ![w] =
                                [pc |-> "check", user |-> user, resume |-> Len(resumes) + 1,
                                 order |-> order, i |-> 1, created_any |-> FALSE]]
            /\ ran' = [ran EXCEPT ![user] = Len(jobs)]
            /\ overlap' = IF \E v \in WorkerIds \ {w} :
                                requests[v].pc # "idle" /\ requests[v].user = user
                          THEN overlap \cup {user} ELSE overlap
            /\ response' = response

\* one pass of the loop up to `if already_exists: continue` and the scorer
CheckExists(w) ==
    LET r == requests[w] IN
    /\ UNCHANGED <<args, returned>>
    /\ r.pc = "check"
    /\ r.i <= Len(r.order)
    /\ UNCHANGED <<jobs, resumes, scores, ran, seen, overlap>>
    /\ IF AlreadyExists(scores, resumes, r.order[r.i], r.user)
       THEN /\ requests' = [requests EXCEPT ![w].i = r.i + 1]
            /\ response' = response
       ELSE IF Scored[resumes[r.resume].skills, jobs[r.order[r.i]].required_skills].empty
       THEN /\ requests' = [requests EXCEPT ![w] = Idle]
            /\ response' = ServerErrorResponse
       ELSE /\ requests' = [requests EXCEPT ![w].pc = "create"]
            /\ response' = response

\* Score.objects.create(...) and `created_any = True`
CreateScore(w) ==
    LET r == requests[w] IN
    /\ UNCHANGED <<args, returned>>
    /\ r.pc = "create"
    /\ Len(scores) < MaxScores
    /\ scores' = Append(scores, NewScore(r.resume, r.order[r.i], resumes[r.resume].skills,
                                         jobs[r.order[r.i]].required_skills))
    /\ requests' = [requests EXCEPT ![w].pc = "check", ![w].i = r.i + 1,
                                    ![w].created_any = TRUE]
    /\ UNCHANGED <<jobs, resumes, response, ran, seen, overlap>>

\* the end of the loop: message and redirect
FinishUpload(w) ==
    LET r == requests[w] IN
    /\ UNCHANGED <<args, returned>>
    /\ r.pc = "check"
    /\ r.i > Len(r.order)
    /\ response' = UploadResponse(r.created_any)
    /\ seen' = Seen(Len(r.order), r.created_any)
    /\ requests' = [requests EXCEPT ![w] = Idle]
    /\ UNCHANGED <<jobs, resumes, scores, ran, overlap>>

NextConc ==
    \/ \E w \in WorkerIds, u \in Users, in \in UploadInputs : StartUpload(w, u, in)
    \/ \E w \in WorkerIds : CheckExists(w)
    \/ \E w \in WorkerIds : CreateScore(w)
    \/ \E w \in WorkerIds : FinishUpload(w)
    \/ \E rs \in NextJobSkills : AddJob(rs)

SpecConc == Init /\ [][NextConc]_vars

(***************************************************************************)
(* The functions of the text pipeline called on their own, each on an      *)
(* input drawn from a bounded set.                                         *)
(***************************************************************************)
\* the sequences over S of length at most n
SeqsUpTo(S, n) == UNION {[1..k -> S] : k \in 0..n}

\* text units of the files: 150 characters with a resume keyword, 49 and
\* 150 characters without one, 48 characters with a keyword in capitals
PartPool ==
    {"Education " \o Pad(140), Pad(49), "RESUME" \o Pad(42), Pad(150)}

FileNames == {"cv.pdf", "CV.Docx", "cv.txt"}

\* request.FILES["resume"]: every name, every sequence of units, and the
\* parser raising at no unit (0) or at one of them
Files ==
    UNION {{[name |-> n, parts |-> ps, failAt |-> k, pos |-> 0] :
               n \in FileNames, k \in 0..(IF Len(ps) = 0 THEN 1 ELSE Len(ps))} :
           ps \in SeqsUpTo(PartPool, MaxParts)}

\* words of the resume texts
WordPool == {"JavaScript", "GitHub", "MySQL", "python", "C++", "Machine Learning", "and"}

WordSeparators == {" ", ", "}

\* comma-separated pieces of skill texts
PiecePool == {"python", " django", " sql", "SQL ", ""}

\* the calls: a function of core/views.py and its arguments
Calls ==
    {[fn |-> "extract_text_from_resume", file |-> f] : f \in Files}
    \cup {[fn |-> "extract_skills_from_text", words |-> ws, sep |-> sep] :
              ws \in SeqsUpTo(WordPool, MaxWords), sep \in WordSeparators}
    \cup {[fn |-> "missing_skills", skills |-> a, required_skills |-> b] :
              a \in SeqsUpTo(PiecePool, MaxResumePieces),
              b \in SeqsUpTo(PiecePool, MaxJobPieces)}

InitFunctions ==
    /\ jobs = <<>>
    /\ resumes = <<>>
    /\ scores = <<>>
    /\ response = NoResponse
    /\ requests = [w \in WorkerIds |-> Idle]
    /\ ran = [u \in Users |-> -1]
    /\ seen = {}
    /\ overlap = {}
    /\ args \in Calls
    /\ returned = NoReturn

\* resume_text = extract_text_from_resume(file)
ExtractText ==
    /\ args.fn = "extract_text_from_resume"
    /\ returned.step = "none"
    /\ returned' = [step |-> "extracted",
                    text |-> extract_text_from_resume(args.file),
                    file |-> FileAfterExtract(args.file),
                    raised |-> FALSE]
    /\ UNCHANGED <<args, tables>>

\* upload_resume steps 1 and 2 on the extracted text: strip() and the
\* resume-likeness test
ValidateResume ==
    /\ returned.step = "extracted"
    /\ LET cleaned == Strip(returned.text)
       IN returned' = [step |-> "validated",
                       text |-> returned.text,
                       file |-> returned.file,
                       raised |-> returned.raised,
                       looks_like_resume |-> LooksLikeResume(cleaned)]
    /\ UNCHANGED <<args, tables>>

\* the text of a call of extract_skills_from_text
TextOf(call) == JoinSeq(call.sep, call.words)

\* extracted_skills = extract_skills_from_text(text)
ExtractSkills ==
    /\ args.fn = "extract_skills_from_text"
    /\ returned.step = "none"
    /\ returned' = [step |-> "skills",
                    extracted_skills |-> extract_skills_from_text(TextOf(args))]
    /\ UNCHANGED <<args, tables>>

\* missing_skills of upload_resume for a skills_text and a required_skills
MatchSkills ==
    /\ args.fn = "missing_skills"
    /\ returned.step = "none"
    /\ returned' = [step |-> "matched",
                    missing_skills |-> MissingSkills(JoinSeq(",", args.skills),
                                                     JoinSeq(",", args.required_skills))]
    /\ UNCHANGED <<args, tables>>

NextFunctions ==
    \/ ExtractText
    \/ ValidateResume
    \/ ExtractSkills
    \/ MatchSkills

SpecFunctions == InitFunctions /\ [][NextFunctions]_vars

(***************************************************************************)
(* Properties.                                                             *)
(***************************************************************************)
\* the Scores of job whose resume belongs to user
ScoresOf(user, job) ==
    {k \in Ids(scores) : scores[k].job = job /\ resumes[scores[k].resume].user = user}

\* the Score rows a step adds
NewIds == Ids(scores') \ Ids(scores)

\* C1: with requests served one at a time, every (user, job) pair has at
\* most one Score whose resume belongs to the user.
AtMostOneScorePerUserJob ==
    \A u \in Users, j \in Ids(jobs) : Cardinality(ScoresOf(u, j)) <= 1

\* a user holds Scores of two jobs that come from two uploads
ScoresFromTwoUploads ==
    \E u \in Users, j1, j2 \in Ids(jobs) :
        /\ j1 # j2
        /\ \E k1 \in ScoresOf(u, j1), k2 \in ScoresOf(u, j2) :
              scores[k1].resume # scores[k2].resume

\* C2: when the matching step runs for a user for whom it ran before, with
\* no job added since, it creates no Score.
SecondRunCreatesNothing ==
    [][\A u \in Users :
          ( /\ Len(resumes') = Len(resumes) + 1
            /\ resumes'[Len(resumes')].user = u
            /\ ran[u] = Len(jobs) )
          => scores' = scores]_vars

\* C3: with uploads interleaved, a (user, job) pair gets a second Score only
\* when two uploads of that user were in flight at once.
DuplicatesOnlyWhenInterleaved ==
    \A u \in Users, j \in Ids(jobs) : Cardinality(ScoresOf(u, j)) >= 2 => u \in overlap

\* two Scores of one (user, job) pair
DuplicateScoreReached ==
    \E u \in Users, j \in Ids(jobs) : Cardinality(ScoresOf(u, j)) >= 2

StatusRank(status) ==
    IF status = "DRAFT" THEN 0 ELSE IF status = "SUBMITTED" THEN 1 ELSE 2

\* C4: no step moves the status of a Score backward along DRAFT, SUBMITTED,
\* {SHORTLISTED, REJECTED}.
StatusNeverMovesBackward ==
    [][\A k \in Ids(scores) :
          StatusRank(scores'[k].status) >= StatusRank(scores[k].status)]_vars

\* one Score is still SUBMITTED while another went on to REJECTED
SubmittedAndRejected ==
    \E k1, k2 \in Ids(scores) :
        scores[k1].status = "SUBMITTED" /\ scores[k2].status = "REJECTED"

\* C5: no step takes a Score from DRAFT straight to SHORTLISTED or REJECTED.
DecisionOnlyAfterSubmit ==
    [][\A k \in Ids(scores) :
          scores[k].status = "DRAFT" => scores'[k].status \notin {"SHORTLISTED", "REJECTED"}]_vars

\* C6: an upload whose text fails the resume-likeness check or holds no
\* skill keyword leaves the tables as they are.
RejectedUploadChangesNothing ==
    [][\A u \in Users, in \in UploadInputs :
          ( /\ (~Analysed[in].looks_like_resume \/ Analysed[in].extracted_skills = "")
            /\ Upload(u, in) )
          => UNCHANGED <<jobs, resumes, scores>>]_vars

\* an upload was turned down for lack of skills while rows exist
RejectedWithRows ==
    /\ response = NoSkillsResponse
    /\ Len(resumes) > 0
    /\ Len(scores) > 0

\* C7: an upload that passes validation gives every job it has to match and
\* whose corpus has a side without tokens a Score of value 0, and raises
\* nothing.
EmptyVocabularyScoresZero ==
    [][\A u \in Users, in \in UploadInputs :
          ( /\ Len(resumes') = Len(resumes) + 1
            /\ Upload(u, in) )
          => \A j \in Ids(jobs) :
                ( /\ ScoresOf(u, j) = {}
                  /\ \/ Tokens(resumes'[Len(resumes')].skills) = <<>>
                     \/ Tokens(jobs[j].required_skills) = <<>> )
                => /\ response'.level # "exception"
                   /\ \E k \in NewIds : scores'[k].job = j /\ scores'[k].value = 0]_vars

\* C8: the response to an upload that found every job matched differs from
\* the response to an upload that found no job.
DistinctNoOpOutcomes ==
    \A a, b \in seen : (a[1] = "no_jobs" /\ b[1] = "all_matched") => a[2] # b[2]

\* a request of submit_application, toggle_shortlist or an admin action
StatusRequest ==
    \/ \E u \in Users, id \in ScoreIds : SubmitApplication(u, id)
    \/ \E id \in ScoreIds : ToggleShortlist(id)
    \/ \E q \in SUBSET Ids(scores) : MakeShortlisted(q) \/ MakeRejected(q)

\* C9: the status requests change nothing but status and is_shortlisted of
\* Scores: a step that changes a Job, a Resume, the number of Scores or the
\* value, recommended_skills, resume or job of a Score is no status request.
StatusRequestsKeepTheRest ==
    [][~( /\ jobs' = jobs
          /\ resumes' = resumes
          /\ Len(scores') = Len(scores)
          /\ \A k \in Ids(scores) :
                /\ scores'[k].value = scores[k].value
                /\ scores'[k].recommended_skills = scores[k].recommended_skills
                /\ scores'[k].resume = scores[k].resume
                /\ scores'[k].job = scores[k].job ) => ~StatusRequest]_vars

\* a decided Score that carries a value and a recommendation
DecidedScoreWithData ==
    \E k \in Ids(scores) :
        /\ scores[k].status \in {"SHORTLISTED", "REJECTED"}
        /\ scores[k].value > 0
        /\ scores[k].recommended_skills # ""

\* C10: a completed upload of user u creates exactly one Score, DRAFT and
\* not shortlisted, on the new Resume for each job that had no Score of u,
\* and none for the other jobs.
CompletedUploadCreatesDrafts ==
    [][\A u \in Users, in \in UploadInputs :
          ( /\ Len(resumes') = Len(resumes) + 1
            /\ response'.level \in {"success", "warning"}
            /\ Upload(u, in) )
          => \A j \in Ids(jobs) :
                LET new == {k \in NewIds : scores'[k].job = j}
                IN IF ScoresOf(u, j) # {}
                   THEN new = {}
                   ELSE /\ Cardinality(new) = 1
                        /\ \A k \in new :
                              /\ scores'[k].resume = Len(resumes')
                              /\ resumes'[scores'[k].resume].user = u
                              /\ scores'[k].status = "DRAFT"
                              /\ scores'[k].is_shortlisted = FALSE]_vars

\* the last upload completed and gave its user a Score beside one of an
\* earlier upload
UploadFilledGap ==
    /\ response.level = "success"
    /\ \E k1, k2 \in Ids(scores) :
          /\ scores[k2].resume = Len(resumes)
          /\ scores[k1].resume # Len(resumes)
          /\ resumes[scores[k1].resume].user = resumes[Len(resumes)].user

\* C11: an upload leaves every Score and Resume that existed as it was, and
\* every Score it creates is of a job that had no Score of the uploading
\* user.
UploadKeepsExistingScores ==
    [][\A u \in Users, in \in UploadInputs :
          ( /\ Len(resumes') = Len(resumes) + 1
            /\ Upload(u, in) )
          => /\ \A k \in Ids(scores) : scores'[k] = scores[k]
             /\ \A r \in Ids(resumes) : resumes'[r] = resumes[r]
             /\ \A k \in NewIds : ScoresOf(u, scores'[k].job) = {}]_vars

\* a user whose first Score was submitted uploaded again, with another skill
\* text, and got a Score of a job added since
SecondUploadBesideSubmitted ==
    \E k1, k2 \in Ids(scores) :
        /\ scores[k1].resume < scores[k2].resume
        /\ scores[k1].job < scores[k2].job
        /\ resumes[scores[k1].resume].user = resumes[scores[k2].resume].user
        /\ resumes[scores[k1].resume].skills # resumes[scores[k2].resume].skills
        /\ scores[k1].status = "SUBMITTED"
        /\ scores[k2].status = "DRAFT"

\* the (job, value, recommended_skills, status) of the Score rows of table
\* from row number first on
CreatedBy(table, first) ==
    {[job |-> table[k].job, value |-> table[k].value,
      recommended_skills |-> table[k].recommended_skills,
      status |-> table[k].status] : k \in first..Len(table)}

\* C12: the Scores an upload creates are the ones the matching loop creates
\* under every order of the jobs.
MatchingOrderIndependent ==
    [][\A u \in Users, in \in UploadInputs :
          ( /\ Len(resumes') = Len(resumes) + 1
            /\ Upload(u, in) )
          => \A order \in JobOrders(jobs) :
                CreatedBy(RunMatching(order, 1, scores, resumes', Len(resumes'),
                                      FALSE, jobs).scores, Len(scores) + 1)
                = CreatedBy(scores', Len(scores) + 1)]_vars

\* C18: a Score is flagged is_shortlisted exactly when its status is
\* SHORTLISTED.
ShortlistFlagMatchesStatus ==
    \A k \in Ids(scores) : scores[k].is_shortlisted <=> scores[k].status = "SHORTLISTED"

\* one Score is shortlisted while another was shortlisted and then rejected
ShortlistedBesideRejected ==
    \E k1, k2 \in Ids(scores) :
        /\ scores[k1].status = "SHORTLISTED" /\ scores[k1].is_shortlisted
        /\ scores[k2].status = "REJECTED" /\ ~scores[k2].is_shortlisted

\* C19: submit_application by user u on score id sets the status of that
\* Score to SUBMITTED when the Score is of a resume of u and in DRAFT, and
\* changes no row otherwise.
SubmitOnlyOwnDraft ==
    [][\A u \in Users, id \in ScoreIds :
          SubmitApplication(u, id)
          => /\ jobs' = jobs /\ resumes' = resumes
             /\ IF /\ id \in Ids(scores)
                   /\ resumes[scores[id].resume].user = u
                   /\ scores[id].status = "DRAFT"
                THEN scores' = [scores EXCEPT ![id].status = "SUBMITTED"]
                ELSE scores' = scores]_vars

\* a user holds a submitted Score while a Score of the other user is a draft
SubmittedBesideForeignDraft ==
    \E k1, k2 \in Ids(scores) :
        /\ scores[k1].status = "SUBMITTED"
        /\ scores[k2].status = "DRAFT"
        /\ resumes[scores[k1].resume].user # resumes[scores[k2].resume].user

\* a occurs in b
IsSubstring(a, b) ==
    \E i \in 0..(Len(b) - Len(a)) : \A j \in 1..Len(a) : CharAt(a, j) = CharAt(b, i + j)

\* the permutations of 1..n
OrdersOf(n) == {o \in [1..n -> 1..n] : \A a, b \in 1..n : a # b => o[a] # o[b]}

\* the capital letter of each small letter
UpperOf ==
    [c \in Chars(LowerCase) |->
        CharAt(UpperCase, CHOOSE i \in 1..Len(LowerCase) : CharAt(LowerCase, i) = c)]

RECURSIVE Capitals(_)
\* s with every small letter turned into its capital
Capitals(s) ==
    IF Len(s) = 0 THEN ""
    ELSE IF Len(s) = 1 THEN (IF s \in DOMAIN UpperOf THEN UpperOf[s] ELSE s)
    ELSE Capitals(SubSeq(s, 1, Len(s) \div 2)) \o Capitals(SubSeq(s, Len(s) \div 2 + 1, Len(s)))

\* the pieces of a ", "-joined list
ListedIn(list) ==
    IF list = "" THEN <<>>
    ELSE LET pieces == Split(list) IN [i \in 1..Len(pieces) |-> Strip(pieces[i])]

\* list is ", "-joined, without duplicates and in lexicographic order
IsSortedList(list) ==
    LET names == ListedIn(list)
    IN /\ list = JoinSeq(", ", names)
       /\ \A i, j \in 1..Len(names) : i < j => StrLess(names[i], names[j])

\* the tokens of a sequence of comma-separated pieces: trimmed, lower-cased,
\* the empty ones dropped
TokensOf(pieces) == {Lower(Strip(pieces[i])) : i \in 1..Len(pieces)} \ {""}

\* the pieces in reverse order
Reversed(pieces) == [i \in 1..Len(pieces) |-> pieces[Len(pieces) + 1 - i]]

\* C13: the missing skills of a skills_text and a required_skills are the
\* job tokens that are no resume tokens, in lexicographic order and joined
\* by ", "; "python, django, sql" against "python, sql" gives "django"; the
\* order of the pieces and repeated pieces make no difference.
RecommendedIsSortedDifference ==
    returned.step = "matched" =>
        LET missing == TokensOf(args.required_skills) \ TokensOf(args.skills)
            names == ListedIn(returned.missing_skills)
        IN /\ IsSortedList(returned.missing_skills)
           /\ {names[i] : i \in 1..Len(names)} = missing
           /\ ( /\ args.required_skills = <<"python", " django", " sql">>
                /\ args.skills = <<"python", " sql">> )
              => returned.missing_skills = "django"
           /\ MissingSkills(JoinSeq(",", Reversed(args.skills) \o args.skills),
                            JoinSeq(",", args.required_skills \o Reversed(args.required_skills)))
              = returned.missing_skills

\* two skills are missing from a resume that names one of the job's skills
\* in other letters and spacing
TwoSkillsMissing ==
    /\ returned.step = "matched"
    /\ returned.missing_skills = "django, python"
    /\ args.skills = <<"SQL ", "">>
    /\ args.required_skills = <<" sql", "python", " django">>

\* some resume keyword occurs in the lower-cased text
HasResumeKeyword(text) ==
    \E i \in 1..Len(RESUME_KEYWORDS) : IsSubstring(RESUME_KEYWORDS[i], Lower(text))

\* C14 as stated: the upload passes the resume-likeness check exactly when
\* the extracted text has at least 200 characters and, lower-cased, holds
\* a resume keyword.
PassesIffLongWithKeyword ==
    returned.step = "validated" =>
        ( returned.looks_like_resume
          <=> (Len(returned.text) >= 200 /\ HasResumeKeyword(returned.text)) )

\* C14 amended: the upload passes the resume-likeness check exactly when the
\* extracted text without its leading and trailing white space has at least
\* 200 characters and, lower-cased, holds a resume keyword; 150 characters
\* with "education" are turned down, and so are 300 without a keyword.
PassesIffStrippedLongWithKeyword ==
    returned.step = "validated" =>
        LET cleaned == Strip(returned.text)
        IN /\ returned.looks_like_resume
              <=> (Len(cleaned) >= 200 /\ HasResumeKeyword(cleaned))
           /\ (Len(cleaned) = 150 /\ IsSubstring("education", Lower(cleaned)))
              => ~returned.looks_like_resume
           /\ (Len(cleaned) >= 300 /\ ~HasResumeKeyword(cleaned))
              => ~returned.looks_like_resume

\* a text of exactly 200 characters between white space was accepted
PassedAtTheLimit ==
    /\ returned.step = "validated"
    /\ returned.looks_like_resume
    /\ Len(Strip(returned.text)) = 200
    /\ Len(returned.text) > 200

\* the texts that differ from the text of the call in letter case or in the
\* order of its words
VariantsOf(call) ==
    {Lower(TextOf(call)), Capitals(TextOf(call))}
    \cup {JoinSeq(call.sep, [i \in 1..Len(call.words) |-> call.words[o[i]]]) :
              o \in OrdersOf(Len(call.words))}

\* C15: extract_skills_from_text returns the vocabulary keywords that occur
\* in the lower-cased text, each once, in lexicographic order and joined by
\* ", ", and returns the same for the text in other letter case or with its
\* words in another order.
ExtractedSkillsCanonical ==
    returned.step = "skills" =>
        LET names == ListedIn(returned.extracted_skills)
        IN /\ IsSortedList(returned.extracted_skills)
           /\ {names[i] : i \in 1..Len(names)}
              = {SKILL_KEYWORDS[i] : i \in {j \in 1..Len(SKILL_KEYWORDS) :
                                              IsSubstring(SKILL_KEYWORDS[j], Lower(TextOf(args)))}}
           /\ \A text \in VariantsOf(args) :
                 extract_skills_from_text(text) = returned.extracted_skills

\* two words in mixed case gave several keywords
MixedCaseWordsExtracted ==
    /\ returned.step = "skills"
    /\ args.words = <<"python", "MySQL">>
    /\ returned.extracted_skills = "mysql, python, sql"

\* the file name ends in .pdf or .docx, whatever the case of its letters
IsPdfOrDocx(name) ==
    \E suffix \in {".pdf", ".docx"} :
        /\ Len(name) >= Len(suffix)
        /\ Lower(SubSeq(name, Len(name) - Len(suffix) + 1, Len(name))) = suffix

\* C16: extract_text_from_resume of a .pdf or .docx file whose parsing fails
\* returns the empty string and raises nothing.
ParseFailureGivesEmptyText ==
    ( /\ returned.step \in {"extracted", "validated"}
      /\ IsPdfOrDocx(args.file.name)
      /\ args.file.failAt \in 1..Len(args.file.parts) )
    => (returned.text = "" /\ ~returned.raised)

\* a PDF whose second page failed, after a first page with text
SecondPageFailed ==
    /\ returned.step = "extracted"
    /\ args.file.name = "cv.pdf"
    /\ args.file.failAt = 2
    /\ args.file.parts[1] # ""
    /\ returned.text = ""

\* C17: after extract_text_from_resume the file holds what it held, its
\* read position is at the start, and Resume.objects.create stores all of
\* it.
ExtractionLeavesFileWhole ==
    returned.step \in {"extracted", "validated"} =>
        /\ returned.file.name = args.file.name
        /\ returned.file.parts = args.file.parts
        /\ returned.file.pos = 0
        /\ StoredFile(returned.file) = [name |-> args.file.name, parts |-> args.file.parts]

\* a DOCX of two paragraphs whose parsing failed
FailedDocxExtracted ==
    /\ returned.step = "extracted"
    /\ args.file.name = "CV.Docx"
    /\ args.file.failAt > 0
    /\ Len(args.file.parts) = 2

\* the pairs of vocabulary keywords of which the first occurs in the second
KeywordInKeyword ==
    {pair \in {SKILL_KEYWORDS[i] : i \in 1..Len(SKILL_KEYWORDS)}
              \X {SKILL_KEYWORDS[i] : i \in 1..Len(SKILL_KEYWORDS)} :
        pair[1] # pair[2] /\ IsSubstring(pair[1], pair[2])}

\* C20: when extract_skills_from_text returns a keyword it returns every
\* vocabulary keyword that occurs in that keyword.
ExtractedSkillsClosedUnderSubstring ==
    returned.step = "skills" =>
        LET names == ListedIn(returned.extracted_skills)
            listed == {names[i] : i \in 1..Len(names)}
        IN \A pair \in KeywordInKeyword : pair[2] \in listed => pair[1] \in listed

\* JavaScript and GitHub brought java, c and git along
KeywordsBroughtAlong ==
    /\ returned.step = "skills"
    /\ args.words = <<"JavaScript", "GitHub">>
    /\ returned.extracted_skills = "c, git, github, java, javascript"

====
